---- MODULE Spec2Model ----
(***************************************************************************)
(* Verification model of go-bluetooth: the property block parser           *)
(* (gen/parser/property.go) and the subscription helpers of a generated    *)
(* client (bluez/profile/media/gen_MediaTransport1.go).                    *)
(*                                                                         *)
(* Text is modelled as a sequence of one-character strings, so that the    *)
(* regular expressions and the strings.* calls of the parser work on the   *)
(* characters of the block and on nothing else.                            *)
(***************************************************************************)
EXTENDS Integers, Sequences, FiniteSets, TLC

\* ------------------------------------------------------------------------
\* Characters and Go's strings package
\* ------------------------------------------------------------------------
SP == " "
TAB == "\t"
NL == "\n"

Upper ==
  {"A","B","C","D","E","F","G","H","I","J","K","L","M",
   "N","O","P","Q","R","S","T","U","V","W","X","Y","Z"}

\* the smallest and the largest element of a non-empty set of integers
MinOf(S) == CHOOSE x \in S : \A y \in S : x <= y
MaxOf(S) == CHOOSE x \in S : \A y \in S : x >= y

\* s[i..] starts with w
HasPrefixAt(s, i, w) ==
  /\ i + Len(w) - 1 <= Len(s)
  /\ \A k \in 1..Len(w) : s[i + k - 1] = w[k]

\* strings.Contains(s, sub)
Contains(s, sub) == \E i \in 1..(Len(s) - Len(sub) + 1) : HasPrefixAt(s, i, sub)

\* strings.Replace(s, old, new, -1) for a non-empty old: the non-overlapping
\* occurrences of old, found left to right, are replaced by new
RECURSIVE ReplaceFrom(_, _, _, _)
ReplaceFrom(s, i, old, new) ==
  IF i > Len(s) THEN <<>>
  ELSE IF HasPrefixAt(s, i, old) THEN new \o ReplaceFrom(s, i + Len(old), old, new)
  ELSE <<s[i]>> \o ReplaceFrom(s, i + 1, old, new)

Replace(s, old, new) == ReplaceFrom(s, 1, old, new)

\* strings.Trim(s, cutset): the leading and trailing characters of cutset go
Span(s, keep) == IF keep = {} THEN <<>> ELSE SubSeq(s, MinOf(keep), MaxOf(keep))

Trim(s, cutset) == Span(s, {i \in 1..Len(s) : s[i] \notin cutset})

\* strings.Split(s, sep) for a one-character sep: Split("", sep) is [""]
RECURSIVE SplitFrom(_, _, _)
SplitFrom(s, i, sep) ==
  LET hits == {k \in i..Len(s) : s[k] = sep}
  IN IF hits = {} THEN <<SubSeq(s, i, Len(s))>>
     ELSE <<SubSeq(s, i, MinOf(hits) - 1)>> \o SplitFrom(s, MinOf(hits) + 1, sep)

Split(s, sep) == SplitFrom(s, 1, sep)

\* ------------------------------------------------------------------------
\* The two patterns of Parse
\* ------------------------------------------------------------------------
\* the alternatives of group 1 of propBaseRegexp, in the order of the pattern;
\* the last one, array\{.*?, is a literal followed by a lazy repetition
TypeAlternatives ==
  << <<"b","o","o","l">>,
     <<"b","o","o","l","e","a","n">>,
     <<"b","y","t","e">>,
     <<"s","t","r","i","n","g">>,
     <<"i","n","t","1","6">>,
     <<"u","i","n","t","1","6">>,
     <<"u","i","n","t","1","6","_","t">>,
     <<"u","i","n","t","3","2">>,
     <<"d","i","c","t">>,
     <<"o","b","j","e","c","t">>,
     <<"a","r","r","a","y","{">> >>

ArrayAlternative == Len(TypeAlternatives)

\* '.' outside (?s) matches every character but the newline
NoNewline(raw, from, to) == \A k \in from..to : raw[k] # NL

\* `\n((?s).+)` at cursor i: the newline and at least one more character
DocsAt(raw, i) == i < Len(raw) /\ raw[i] = NL

\* `( \[[^\]]*\].*)` at cursor i, followed by the docs: the cursors the group
\* can end at. [^\]]* stops at a ']' (it may cross newlines), .* stays on
\* the line.
FlagGroupEnds(raw, i) ==
  IF ~(HasPrefixAt(raw, i, <<SP, "[">>)) THEN {}
  ELSE {j \in (i + 3)..Len(raw) :
          /\ DocsAt(raw, j)
          /\ \E r \in (i + 2)..(j - 1) :
               /\ raw[r] = "]"
               /\ \A k \in (i + 2)..(r - 1) : raw[k] # "]"
               /\ NoNewline(raw, r + 1, j - 1)}

\* what follows group 2 at cursor i. Strict pattern: the optional flag group
\* (greedy: taken when it can be), then the docs. Loose pattern: the docs.
\* The result is the cursor of the newline, 0 when there is no match.
TailAfter(raw, i, ends) ==
  IF ends # {} THEN MaxOf(ends)
  ELSE IF DocsAt(raw, i) THEN i
  ELSE 0

TailNewline(raw, i, strict) ==
  TailAfter(raw, i, IF strict THEN FlagGroupEnds(raw, i) ELSE {})

\* `([A-Z].+?)` at cursor i: the cursors right after the name from which the
\* rest of the pattern matches; the lazy repetition takes the smallest
NameEnds(raw, i, strict) ==
  IF i > Len(raw) \/ raw[i] \notin Upper THEN {}
  ELSE {f \in (i + 2)..Len(raw) :
          NoNewline(raw, i + 1, f - 1) /\ TailNewline(raw, f, strict) # 0}

\* group 1 with alternative a at cursor t: the cursors right after the type
\* from which ` ([A-Z].+?)` and the rest match
TypeEnds(raw, t, a, strict) ==
  IF ~HasPrefixAt(raw, t, TypeAlternatives[a]) THEN {}
  ELSE LET lit == t + Len(TypeAlternatives[a])
           ends == IF a = ArrayAlternative
                   THEN {c \in lit..Len(raw) : NoNewline(raw, lit, c - 1)}
                   ELSE {lit}
       IN {c \in ends : c <= Len(raw) /\ raw[c] = SP
                        /\ NameEnds(raw, c + 1, strict) # {}}

\* the alternatives of group 1 that lead to a match at cursor t
AltsAt(raw, t, strict) ==
  {a \in 1..Len(TypeAlternatives) : TypeEnds(raw, t, a, strict) # {}}

\* the only blanks between cursors s and t: `[ \t]*?` can run from s to t
Blank(raw, s, t) == \A k \in s..(t - 1) : raw[k] \in {SP, TAB}

\* the submatches of the match that starts at s, with the type at t..c-1,
\* the name at c+1..f-1 and the newline before the docs at q:
\* groups[k + 1] is matches2[0][k]
Submatches(raw, strict, s, t, c, f, q) ==
  [found |-> TRUE,
   groups |-> IF strict
              THEN <<SubSeq(raw, s, Len(raw)), SubSeq(raw, t, c - 1),
                     SubSeq(raw, c + 1, f - 1), SubSeq(raw, f, q - 1),
                     SubSeq(raw, q + 1, Len(raw))>>
              ELSE <<SubSeq(raw, s, Len(raw)), SubSeq(raw, t, c - 1),
                     SubSeq(raw, c + 1, f - 1), SubSeq(raw, q + 1, Len(raw))>>]

\* the lazy name: the first cursor after it that lets the rest match
MatchName(raw, strict, s, t, c, f) ==
  Submatches(raw, strict, s, t, c, f, TailNewline(raw, f, strict))

\* the type: the first alternative that leads to a match, as short as it
\* can be
MatchType(raw, strict, s, t, c) ==
  MatchName(raw, strict, s, t, c, MinOf(NameEnds(raw, c + 1, strict)))

\* the match that starts at s: the lazy `[ \t]*?` takes the fewest blanks
MatchFrom(raw, strict, s, t) ==
  MatchType(raw, strict, s, t,
            MinOf(TypeEnds(raw, t, MinOf(AltsAt(raw, t, strict)), strict)))

\* the leftmost match, given the cursors base at which group 1 can start
Leftmost(raw, strict, base, s) ==
  MatchFrom(raw, strict, s, MinOf({x \in base : s <= x /\ Blank(raw, s, x)}))

FirstMatch(raw, strict, base) ==
  IF base = {} THEN [found |-> FALSE, groups |-> <<>>]
  ELSE Leftmost(raw, strict, base,
                MinOf({x \in 1..Len(raw) : \E t \in base : x <= t /\ Blank(raw, x, t)}))

\* regexp.FindAllSubmatch(raw, -1): whether there is a match, and the
\* submatches of the first one. It is the leftmost match, and among the
\* matches at that place the one a backtracking search finds first (lazy
\* `[ \t]*?`, alternatives in order, lazy type and name, greedy flag group).
FindSubmatch(raw, strict) ==
  FirstMatch(raw, strict, {t \in 1..Len(raw) : AltsAt(raw, t, strict) # {}})

\* ------------------------------------------------------------------------
\* types.Property, types.Flag and PropertyParser.Parse
\* ------------------------------------------------------------------------
\* the zero value of types.Flag and the three flags Parse can set
FlagNone == "none"
FlagReadOnly == "ReadOnly"
FlagReadWrite == "ReadWrite"
FlagExperimental == "Experimental"

\* what a Parse call can end with: a nil error, the error of line 46, or the
\* runtime panic of reading a submatch the match does not have
ErrNil == "nil"
ErrNoProperty == "No property found"
ErrPanic == "panic: index out of range"

\* new(types.Property): every field has its zero value
NewProperty == [Type |-> <<>>, Name |-> <<>>, Flags |-> <<>>, Docs |-> <<>>]

\* the switch of lines 61-74
FlagOf(f) ==
  CASE f = <<"r","e","a","d","o","n","l","y">> -> FlagReadOnly
    [] f = <<"r","e","a","d","w","r","i","t","e">> -> FlagReadWrite
    [] f = <<"e","x","p","e","r","i","m","e","n","t","a","l">> -> FlagExperimental
    [] OTHER -> FlagNone

\* lines 56-58: a fragment holding ']' is cut at the first ']'
CutBracket(f) == IF Contains(f, <<"]">>) THEN Split(f, "]")[1] ELSE f

\* the loop of lines 53-80 over flagList[i..]
RECURSIVE FlagsFrom(_, _)
FlagsFrom(flagList, i) ==
  IF i > Len(flagList) THEN <<>>
  ELSE LET flag == FlagOf(CutBracket(flagList[i]))
       IN (IF flag # FlagNone THEN <<flag>> ELSE <<>>) \o FlagsFrom(flagList, i + 1)

\* lines 49-51 and the loop
ParseFlags(flagListRaw) ==
  FlagsFrom(Split(Trim(flagListRaw, {"[", "]", SP}), ","), 1)

\* lines 82-84
ParseDocs(docsRaw) ==
  Trim(Replace(docsRaw, <<SP, TAB, NL>>, <<>>), {SP, TAB, NL})

Optional == <<"o","p","t","i","o","n","a","l">>
OptionalNote == <<"(">> \o Optional \o <<")">>

\* lines 86-93: the name, and the docs with the marker when the name says
\* "optional"
ParseName(nameRaw) ==
  Replace(IF Contains(nameRaw, Optional)
          THEN Replace(nameRaw, <<SP>> \o OptionalNote, <<>>)
          ELSE nameRaw,
          <<SP, TAB, NL>>, <<>>)

MarkDocs(nameRaw, docs) ==
  IF Contains(nameRaw, Optional) THEN OptionalNote \o <<SP>> \o docs ELSE docs

\* line 38 with the fallback taken whenever the strict match has no flags
NeedsFallbackOnNoFlags(m) == ~m.found \/ m.groups[4] = <<>>

\* line 38: there is no match, or the first match has no submatch
NeedsFallback(m) == ~m.found \/ Len(m.groups) = 1

\* lines 33-42 with the loose pattern's match read whatever the strict one gave
FallbackAlways(raw, m) == FindSubmatch(raw, FALSE)

\* lines 33-42: the strict pattern, and the loose one when the strict one
\* has no match
Fallback(raw, m) == IF NeedsFallback(m) THEN FindSubmatch(raw, FALSE) ELSE m

Matches(raw) == Fallback(raw, FindSubmatch(raw, TRUE))

\* Outcome with the flags of the call added to those the model holds
OutcomeAddsFlags(prop, m) ==
  IF ~m.found THEN [model |-> prop, err |-> ErrNoProperty]
  ELSE IF Len(m.groups) < 5 THEN [model |-> prop, err |-> ErrPanic]
  ELSE [model |-> [Type |-> m.groups[2],
                   Name |-> ParseName(m.groups[3]),
                   Flags |-> prop.Flags \o ParseFlags(m.groups[4]),
                   Docs |-> MarkDocs(m.groups[3], ParseDocs(m.groups[5]))],
        err |-> ErrNil]

\* lines 44-103, given the matches: the model after the call and what the
\* call ends with
Outcome(prop, m) ==
  IF ~m.found THEN [model |-> prop, err |-> ErrNoProperty]
  ELSE IF Len(m.groups) < 5 THEN [model |-> prop, err |-> ErrPanic]
  ELSE [model |-> [Type |-> m.groups[2],
                   Name |-> ParseName(m.groups[3]),
                   Flags |-> ParseFlags(m.groups[4]),
                   Docs |-> MarkDocs(m.groups[3], ParseDocs(m.groups[5]))],
        err |-> ErrNil]

\* Parse(raw) on a parser whose model holds prop
ParseOutcome(prop, raw) == Outcome(prop, Matches(raw))

\* ------------------------------------------------------------------------
\* The blocks handed to Parse
\* ------------------------------------------------------------------------
\* A block is put together from the parts of the input grammar: leading
\* blanks, a type, a space, the name part of the signature line, what follows
\* the name on that line, a newline and the docs paragraph.
TypeKeywords ==
  { <<"s","t","r","i","n","g">>,
    <<"b","o","o","l","e","a","n">>,
    <<"u","i","n","t","1","6","_","t">>,
    <<"a","r","r","a","y","{","b","y","t","e","}">> }

TypeParts == TypeKeywords \cup { <<"i","n","t","8">> }

CapitalizedNames == { <<"F","o","o">>, <<"A","b">>, <<"X">> }

NameParts ==
  CapitalizedNames \cup
  { <<"F","o","o",SP,"B","a","r">>,
    <<"H","a","n","d","l","e",SP,"(","o","p","t","i","o","n","a","l",")">>,
    <<"H","a","n","d","l","e","(","o","p","t","i","o","n","a","l",")">>,
    <<"f","o","o">> }

FlagParts ==
  { <<>>,
    <<SP,"[","r","e","a","d","o","n","l","y","]">>,
    <<SP,"[","r","e","a","d","w","r","i","t","e","]">>,
    <<SP,"[","r","e","a","d","o","n","l","y",",","r","e","a","d","w","r","i","t","e","]">>,
    <<SP,"[","r","e","a","d","o","n","l","y",",",SP,"e","x","p","e","r","i","m","e","n","t","a","l","]">>,
    <<SP,"[","e","x","p","e","r","i","m","e","n","t","a","l",",","r","e","a","d","o","n","l","y","]">>,
    <<SP,"[","r","e","a","d","w","r","i","t","e","]",SP,"(","x",")">>,
    <<SP,"[","b","o","g","u","s",",","r","e","a","d","w","r","i","t","e","]","]">> }

DocsParts ==
  { <<>>,
    <<"d">>,
    <<SP>>,
    <<TAB,"d",SP,NL>>,
    <<"a",SP,TAB,NL,"b">> }

Block(lead, type, name, flags, docs) ==
  [lead |-> lead, type |-> type, name |-> name, flags |-> flags, docs |-> docs]

\* the blocks of a parser's first call
Blocks ==
  {Block(<<>>, ty, nm, fl, d) :
     ty \in TypeParts, nm \in NameParts, fl \in FlagParts, d \in DocsParts}

\* the blocks of the later calls on the same parser
LaterBlocks ==
  { Block(<<TAB>>, <<"s","t","r","i","n","g">>, <<"A","b">>, <<SP,"[","e","x","p","e","r","i","m","e","n","t","a","l",",","r","e","a","d","o","n","l","y","]">>, <<TAB,"d",SP,NL>>),
    Block(<<TAB>>, <<"b","o","o","l","e","a","n">>, <<"H","a","n","d","l","e",SP,"(","o","p","t","i","o","n","a","l",")">>, <<>>, <<SP>>),
    Block(<<>>, <<"i","n","t","8">>, <<"F","o","o">>, <<SP,"[","r","e","a","d","w","r","i","t","e","]">>, <<"d">>),
    Block(<<>>, <<"u","i","n","t","1","6","_","t">>, <<"F","o","o">>, <<>>, <<>>) }

\* the text of a block, as read from the documentation
Text(b) == b.lead \o b.type \o <<SP>> \o b.name \o b.flags \o <<NL>> \o b.docs

\* the calls one parser gets
MaxCalls == 2

\* ------------------------------------------------------------------------
\* State
\* ------------------------------------------------------------------------
VARIABLES
  block,                \* the block of the current Parse call, by its parts
  model,                \* PropertyParser.model, the parser's one Property
  perr,                 \* what the last Parse call ended with
  ppc,                  \* "call": Parse is about to run; "done": it returned
  calls,                \* the Parse calls made on the parser
  propertiesSignal,     \* MediaTransport1.propertiesSignal
  objectManagerSignal,  \* MediaTransport1.objectManagerSignal
  objectManager,        \* MediaTransport1.objectManager
  cancelReturned,       \* a cancel function of GetObjectManagerSignal is out
  connected,            \* the client's connection is open
  registered,           \* the channels the transport delivers events to
  chans,                \* the channels made so far and what they buffer
  op,                   \* the last client operation and what it did
  lock,                 \* MediaTransport1Properties.lock, the sync.RWMutex
  Properties,           \* MediaTransport1.Properties, the record's fields
  lpc,                  \* where each caller stands in GetProperties or ToMap
  fetched,              \* the value and error of each caller's fetch
  view,                 \* the mapping each caller's ToMap has built so far
  ret,                  \* what each caller's last call returned
  recv,                 \* the record a marshalling call is made on
  given,                \* the mapping the last ToMap built or FromMap was given
  fresh,                \* the record the last FromMap or FromDBusMap returned
  merr,                 \* the error the last marshalling call returned
  propsConfig,          \* DBusProperties.propsConfig["test"], one PropInfo per field
  mop,                  \* the last marshalling call
  api,                  \* the interface models handed to Generate
  files,                \* the destination root: the content of each file
  gi,                   \* the interface the running Generate writes next
  runs,                 \* the Generate runs that went through
  firstTree,            \* the destination root as the first such run left it
  generr,               \* the error of the last Generate run
  made,                 \* what the constructor of the client returned
  spc,                  \* where each caller stands in GetPropertiesSignal
  sloc,                 \* the channel each caller's Register call gave it
  since,                \* the channels registered since the last unregistration
  returned,             \* the channels GetPropertiesSignal returned since then
  cfg,                  \* the value of MpuSensor.cfg, the config characteristic
  notifying,            \* the Notifying property of MpuSensor.data
  sop,                  \* the last MpuSensor call and what it did
  mcalls,               \* the MpuSensor calls made
  propsChanged,         \* the property changes waiting in the watch channel
  closed,               \* the watch channel was closed
  listener,             \* the goroutine of StartNotify and how it ended
  forwarded,            \* the data events sent on the tag's Data channel
  values                \* the 'Value' changes delivered after StartNotify

vars == <<block, model, perr, ppc, calls, propertiesSignal,
          objectManagerSignal, objectManager, cancelReturned, connected,
          registered, chans, op, lock, Properties, lpc, fetched, view, ret,
          recv, given, fresh, merr, propsConfig, mop,
          api, files, gi, runs, firstTree, generr,
          made, spc, sloc, since, returned,
          cfg, notifying, sop, mcalls, propsChanged, closed, listener,
          forwarded, values>>

\* ------------------------------------------------------------------------
\* The parser: NewPropertyParser, then Parse calls
\* ------------------------------------------------------------------------
\* NewPropertyParser, and the first block
InitParserVars ==
  /\ block \in Blocks
  /\ model = NewProperty
  /\ perr = ErrNil
  /\ ppc = "call"
  /\ calls = 0

\* PropertyParser.Parse(raw) with raw the text of block
ParseReturns(out) ==
  /\ model' = out.model
  /\ perr' = out.err

Parse ==
  /\ ppc = "call"
  /\ ParseReturns(ParseOutcome(model, Text(block)))
  /\ ppc' = "done"
  /\ calls' = calls + 1
  /\ UNCHANGED block

\* the caller goes on to the next block with the same parser
NextBlock ==
  /\ ppc = "done"
  /\ perr # ErrPanic
  /\ calls < MaxCalls
  /\ block' \in LaterBlocks
  /\ ppc' = "call"
  /\ UNCHANGED <<model, perr, calls>>

\* ------------------------------------------------------------------------
\* The generated client: MediaTransport1 and the transport it registers with
\* ------------------------------------------------------------------------
\* a nil object manager or error
NIL == "nil"

\* a nil channel: the zero value of the two signal fields
NoChan == 0

\* what a channel carries: a signal of the transport, or the nil sentinel
Event == "signal"
Sentinel == "sentinel"

\* the channels one run makes, and the signals a channel buffers
MaxChans == 2
ChanCap == 1

\* a client operation's name, its error, and what it did on the way
Did(name, err, sent, unreg) ==
  [name |-> name, err |-> err, sentinel |-> sent, unregister |-> unreg]

\* new(MediaTransport1) and an idle transport
InitClientVars ==
  /\ propertiesSignal = NoChan
  /\ objectManagerSignal = NoChan
  /\ objectManager = NIL
  /\ cancelReturned = FALSE
  /\ connected = TRUE
  /\ registered = {}
  /\ chans = <<>>
  /\ op = Did("NewMediaTransport1", NIL, FALSE, FALSE)

\* a send on channel c goes through when its buffer has room
CanSend(c) == Len(chans[c]) < ChanCap

Send(ch, c, v) == [ch EXCEPT ![c] = Append(@, v)]

\* client.Register and ObjectManager.Register: a new channel, which the
\* transport delivers to from now on
RegisterChan == Len(chans) + 1

\* GetPropertiesSignal, the Register call succeeding or failing
GetPropertiesSignal ==
  \/ /\ propertiesSignal # NoChan
     /\ op' = Did("GetPropertiesSignal", NIL, FALSE, FALSE)
     /\ UNCHANGED <<propertiesSignal, objectManagerSignal, objectManager,
                    cancelReturned, connected, registered, chans>>
  \/ /\ propertiesSignal = NoChan
     /\ Len(chans) < MaxChans
     /\ propertiesSignal' = RegisterChan
     /\ chans' = Append(chans, <<>>)
     /\ registered' = registered \cup {RegisterChan}
     /\ connected' = TRUE
     /\ op' = Did("GetPropertiesSignal", NIL, FALSE, FALSE)
     /\ UNCHANGED <<objectManagerSignal, objectManager, cancelReturned>>
  \/ /\ propertiesSignal = NoChan
     /\ op' = Did("GetPropertiesSignal", "register failed", FALSE, FALSE)
     /\ UNCHANGED <<propertiesSignal, objectManagerSignal, objectManager,
                    cancelReturned, connected, registered, chans>>

\* UnregisterEffect without the assignment that clears the field
UnregisterEffectKeepsField ==
  IF propertiesSignal # NoChan
  THEN /\ CanSend(propertiesSignal)
       /\ chans' = Send(chans, propertiesSignal, Sentinel)
       /\ UNCHANGED propertiesSignal
  ELSE UNCHANGED <<chans, propertiesSignal>>

\* unregisterPropertiesSignal: the sentinel goes to the channel and the
\* field is cleared; the transport is not told
UnregisterEffect ==
  IF propertiesSignal # NoChan
  THEN /\ CanSend(propertiesSignal)
       /\ chans' = Send(chans, propertiesSignal, Sentinel)
       /\ propertiesSignal' = NoChan
  ELSE UNCHANGED <<chans, propertiesSignal>>

unregisterPropertiesSignal ==
  /\ UnregisterEffect
  /\ op' = Did("unregisterPropertiesSignal", NIL, propertiesSignal # NoChan, FALSE)
  /\ UNCHANGED <<objectManagerSignal, objectManager, cancelReturned,
                 connected, registered>>

\* Close: unregisterPropertiesSignal, then client.Disconnect
Close ==
  /\ UnregisterEffect
  /\ connected' = FALSE
  /\ op' = Did("Close", NIL, propertiesSignal # NoChan, FALSE)
  /\ UNCHANGED <<objectManagerSignal, objectManager, cancelReturned, registered>>

\* GetObjectManagerSignal: bluez.GetObjectManager and Register can each fail
GetObjectManagerSignal ==
  \/ /\ objectManagerSignal # NoChan
     /\ cancelReturned' = TRUE
     /\ op' = Did("GetObjectManagerSignal", NIL, FALSE, FALSE)
     /\ UNCHANGED <<propertiesSignal, objectManagerSignal, objectManager,
                    connected, registered, chans>>
  \/ /\ objectManagerSignal = NoChan
     /\ objectManager = NIL
     /\ op' = Did("GetObjectManagerSignal", "no object manager", FALSE, FALSE)
     /\ UNCHANGED <<propertiesSignal, objectManagerSignal, objectManager,
                    cancelReturned, connected, registered, chans>>
  \/ /\ objectManagerSignal = NoChan
     /\ objectManager' = "om"
     /\ op' = Did("GetObjectManagerSignal", "register failed", FALSE, FALSE)
     /\ UNCHANGED <<propertiesSignal, objectManagerSignal, cancelReturned,
                    connected, registered, chans>>
  \/ /\ objectManagerSignal = NoChan
     /\ Len(chans) < MaxChans
     /\ objectManager' = "om"
     /\ objectManagerSignal' = RegisterChan
     /\ chans' = Append(chans, <<>>)
     /\ registered' = registered \cup {RegisterChan}
     /\ cancelReturned' = TRUE
     /\ op' = Did("GetObjectManagerSignal", NIL, FALSE, FALSE)
     /\ UNCHANGED <<propertiesSignal, connected>>

\* a cancel function bound to the channel of the first subscription
cancelOfFirst ==
  /\ cancelReturned
  /\ IF 1 \notin registered \/ objectManagerSignal # 1
     THEN /\ op' = Did("cancel", NIL, FALSE, FALSE)
          /\ UNCHANGED <<objectManagerSignal, chans, registered>>
     ELSE /\ CanSend(1)
          /\ chans' = Send(chans, 1, Sentinel)
          /\ registered' = registered \ {1}
          /\ objectManagerSignal' = NoChan
          /\ op' = Did("cancel", NIL, TRUE, TRUE)
  /\ UNCHANGED <<propertiesSignal, objectManager, cancelReturned, connected>>

\* the cancel function GetObjectManagerSignal returned: it reads the
\* client's field when it runs
cancel ==
  /\ cancelReturned
  /\ IF objectManagerSignal = NoChan
     THEN /\ op' = Did("cancel", NIL, FALSE, FALSE)
          /\ UNCHANGED <<objectManagerSignal, chans, registered>>
     ELSE /\ CanSend(objectManagerSignal)
          /\ chans' = Send(chans, objectManagerSignal, Sentinel)
          /\ registered' = registered \ {objectManagerSignal}
          /\ objectManagerSignal' = NoChan
          /\ op' = Did("cancel", NIL, TRUE, TRUE)
  /\ UNCHANGED <<propertiesSignal, objectManager, cancelReturned, connected>>

\* the transport delivers a signal to a channel registered with it
Deliver ==
  /\ \E c \in registered :
       /\ CanSend(c)
       /\ chans' = Send(chans, c, Event)
  /\ op' = Did("deliver", NIL, FALSE, FALSE)
  /\ UNCHANGED <<propertiesSignal, objectManagerSignal, objectManager,
                 cancelReturned, connected, registered>>

\* a subscriber takes the next value from a channel it was given
Receive ==
  /\ \E c \in DOMAIN chans :
       /\ chans[c] # <<>>
       /\ chans' = [chans EXCEPT ![c] = Tail(@)]
  /\ op' = Did("receive", NIL, FALSE, FALSE)
  /\ UNCHANGED <<propertiesSignal, objectManagerSignal, objectManager,
                 cancelReturned, connected, registered>>

\* ------------------------------------------------------------------------
\* The Properties record: its lock, GetProperties and ToMap
\* ------------------------------------------------------------------------
MaxProcs == 2
MaxValue == 2

\* the goroutines that call into one client
Procs == 1..MaxProcs

\* a sync.RWMutex nobody holds
FreeLock == [writer |-> 0, readers |-> {}]

\* a mapping with no key
EmptyMap == [Delay |-> "absent", Volume |-> "absent"]

\* a caller that has no result in hand
NoCall == [name |-> "none", err |-> NIL, torn |-> FALSE]

\* a fetch that has nothing left to write
NoFetch == [value |-> 0, err |-> NIL]

InitLockVars ==
  /\ lock = FreeLock
  /\ Properties = [Delay |-> 0, Volume |-> 0]
  /\ lpc = [p \in Procs |-> "idle"]
  /\ fetched = [p \in Procs |-> NoFetch]
  /\ view = [p \in Procs |-> EmptyMap]
  /\ ret = [p \in Procs |-> NoCall]

\* Lock: p.lock.Lock() goes through when nobody holds the lock
Lock(p) ==
  /\ lock = FreeLock
  /\ lock' = [lock EXCEPT !.writer = p]

\* Unlock that releases the lock only after a fetch without error
UnlockOnSuccess(p) ==
  lock' = IF fetched[p].err = NIL THEN [lock EXCEPT !.writer = 0] ELSE lock

\* Unlock: p.lock.Unlock()
Unlock(p) ==
  lock' = [lock EXCEPT !.writer = 0]

\* GetProperties, a.Properties.Lock()
GetPropertiesLock(p) ==
  /\ lpc[p] = "idle"
  /\ Lock(p)
  /\ lpc' = [lpc EXCEPT ![p] = "gp_locked"]
  /\ ret' = [ret EXCEPT ![p] = NoCall]
  /\ UNCHANGED <<Properties, fetched, view>>

\* GetProperties, a.client.GetProperties(a.Properties): the call fails, or
\* it starts to populate the record in place, one field after the other
GetPropertiesFetch(p) ==
  /\ lpc[p] = "gp_locked"
  /\ \/ /\ fetched' = [fetched EXCEPT ![p] = [value |-> 0, err |-> "fetch failed"]]
        /\ lpc' = [lpc EXCEPT ![p] = "gp_fetched"]
        /\ UNCHANGED Properties
     \/ \E v \in 1..MaxValue :
          /\ fetched' = [fetched EXCEPT ![p] = [value |-> v, err |-> NIL]]
          /\ Properties' = [Properties EXCEPT !.Delay = v]
          /\ lpc' = [lpc EXCEPT ![p] = "gp_populating"]
  /\ UNCHANGED <<lock, view, ret>>

\* GetProperties, the fetch writes the last field and returns
GetPropertiesPopulate(p) ==
  /\ lpc[p] = "gp_populating"
  /\ Properties' = [Properties EXCEPT !.Volume = fetched[p].value]
  /\ fetched' = [fetched EXCEPT ![p] = NoFetch]
  /\ lpc' = [lpc EXCEPT ![p] = "gp_fetched"]
  /\ UNCHANGED <<lock, view, ret>>

\* GetProperties, a.Properties.Unlock()
GetPropertiesUnlock(p) ==
  /\ lpc[p] = "gp_fetched"
  /\ Unlock(p)
  /\ lpc' = [lpc EXCEPT ![p] = "gp_unlocked"]
  /\ UNCHANGED <<Properties, fetched, view, ret>>

\* GetProperties, return a.Properties, err
GetPropertiesReturn(p) ==
  /\ lpc[p] = "gp_unlocked"
  /\ ret' = [ret EXCEPT ![p] = [name |-> "GetProperties", err |-> fetched[p].err,
                                 torn |-> FALSE]]
  /\ fetched' = [fetched EXCEPT ![p] = NoFetch]
  /\ lpc' = [lpc EXCEPT ![p] = "idle"]
  /\ UNCHANGED <<lock, Properties, view>>

\* ToMap, props.ToMap(a) reads the first field; no lock is taken
ToMapBegin(p) ==
  /\ lpc[p] = "idle"
  /\ view' = [view EXCEPT ![p] = [EmptyMap EXCEPT !.Delay = Properties.Delay]]
  /\ lpc' = [lpc EXCEPT ![p] = "tm_reading"]
  /\ ret' = [ret EXCEPT ![p] = NoCall]
  /\ UNCHANGED <<lock, Properties, fetched>>

\* ToMap, props.ToMap(a) reads the last field and the mapping is returned;
\* a fetch writes one value to both fields, so a mapping whose values differ
\* holds one field from before a fetch and one from after it
ToMapReturn(p) ==
  /\ lpc[p] = "tm_reading"
  /\ view' = [view EXCEPT ![p] = EmptyMap]
  /\ ret' = [ret EXCEPT ![p] = [name |-> "ToMap", err |-> NIL,
                                 torn |-> view[p].Delay # Properties.Volume]]
  /\ lpc' = [lpc EXCEPT ![p] = "idle"]
  /\ UNCHANGED <<lock, Properties, fetched>>

\* ------------------------------------------------------------------------
\* The marshaller: ToMap, FromMap, FromDBusMap and parseProperties
\* ------------------------------------------------------------------------
\* one directive of a field's dbus tag, 'ignore=IgnoreFlag' being the
\* directive ignore with the argument IgnoreFlag
Directive(name, arg) == [name |-> name, arg |-> arg]

Field(name, kind, tag) == [name |-> name, kind |-> kind, tag |-> tag]

\* type testStruct, with its tags
testStruct ==
  << Field("IgnoreFlag", "bool", <<Directive("ignore", "")>>),
     Field("ToOmit", "map", <<Directive("omitEmpty", ""), Directive("writable", "")>>),
     Field("Ignored", "string", <<Directive("ignore", "")>>),
     Field("IgnoredByProperty", "array", <<Directive("ignore", "IgnoreFlag")>>),
     Field("Avail", "string", <<>>) >>

\* type MediaTransport1Properties: its lock and three of its properties
MediaTransport1Properties ==
  << Field("lock", "mutex", <<Directive("ignore", "")>>),
     Field("UUID", "string", <<>>),
     Field("Codec", "byte", <<>>),
     Field("Delay", "uint16", <<>>) >>

FieldsOf(type) ==
  IF type = "testStruct" THEN testStruct ELSE MediaTransport1Properties

FieldNames(type) == {FieldsOf(type)[i].name : i \in DOMAIN FieldsOf(type)}

\* the widths of the fixed-width integer kinds
IntWidth == [byte |-> 256, uint16 |-> 65536]

\* the zero value of a kind
Zero(kind) ==
  CASE kind = "bool" -> FALSE
    [] kind = "string" -> ""
    [] kind \in DOMAIN IntWidth -> 0
    [] kind = "mutex" -> 0
    [] OTHER -> <<>>

\* the values a field of a kind takes here: its zero value and another one
ValuesOf(kind) ==
  CASE kind = "bool" -> {FALSE, TRUE}
    [] kind = "string" -> {"", "foo"}
    [] kind = "byte" -> {0, 1}
    [] kind = "uint16" -> {0, 300}
    [] kind = "mutex" -> {0}
    [] kind = "map" -> {<<>>, <<"k">>}
    [] OTHER -> {<<>>, <<"bar">>}

KindOf(type, name) ==
  LET i == CHOOSE k \in DOMAIN FieldsOf(type) : FieldsOf(type)[k].name = name
  IN FieldsOf(type)[i].kind

\* new(T): every field holds its zero value
ZeroRecord(type) ==
  [type |-> type, fields |-> [n \in FieldNames(type) |-> Zero(KindOf(type, n))]]

\* the values the first i fields of a type can hold together
RECURSIVE Assignments(_, _)
Assignments(type, i) ==
  IF i = 0
  THEN {[n \in {} |-> 0]}
  ELSE {f @@ (FieldsOf(type)[i].name :> v) :
          f \in Assignments(type, i - 1), v \in ValuesOf(FieldsOf(type)[i].kind)}

\* the records of a type
RecordsOf(type) ==
  {[type |-> type, fields |-> f] : f \in Assignments(type, Len(FieldsOf(type)))}

HasDirective(field, name) ==
  \E i \in DOMAIN field.tag : field.tag[i].name = name /\ field.tag[i].arg = ""

\* Resolve: the descriptor of a field, from its directives; SkipIfFlag is the
\* sibling field an 'ignore=<Flag>' directive names, "" without one
Descriptor(field) ==
  [Skip |-> HasDirective(field, "ignore"),
   SkipIfFlag |->
     IF \E i \in DOMAIN field.tag : field.tag[i].name = "ignore" /\ field.tag[i].arg # ""
     THEN field.tag[CHOOSE i \in DOMAIN field.tag :
                      field.tag[i].name = "ignore" /\ field.tag[i].arg # ""].arg
     ELSE "",
   OmitIfEmpty |-> HasDirective(field, "omitEmpty"),
   Writable |-> HasDirective(field, "writable")]

\* ExcludedBy that does not look at the sibling field
ExcludedByTagOnly(d, field, fields) ==
  \/ d.Skip
  \/ d.OmitIfEmpty /\ fields[field.name] = Zero(field.kind)

\* the descriptor excludes the field from the record's mapping
ExcludedBy(d, field, fields) ==
  \/ d.Skip
  \/ d.SkipIfFlag # "" /\ fields[d.SkipIfFlag]
  \/ d.OmitIfEmpty /\ fields[field.name] = Zero(field.kind)

Excluded(field, fields) == ExcludedBy(Descriptor(field), field, fields)

Entry(key, kind, val) == [key |-> key, kind |-> kind, val |-> val]

\* the entries of the fields from the i-th on, in declaration order
RECURSIVE EntriesFrom(_, _, _)
EntriesFrom(decl, fields, i) ==
  IF i > Len(decl)
  THEN <<>>
  ELSE (IF Excluded(decl[i], fields)
        THEN <<>>
        ELSE <<Entry(decl[i].name, decl[i].kind, fields[decl[i].name])>>)
       \o EntriesFrom(decl, fields, i + 1)

\* ToMap of a record
ToMapOf(rec) == EntriesFrom(FieldsOf(rec.type), rec.fields, 1)

\* PropInfoOf with Skip taken from the 'ignore' directive alone
PropInfoOfIgnoreOnly(field, fields) ==
  [Name |-> field.name,
   Skip |-> Descriptor(field).Skip,
   Writable |-> Descriptor(field).Writable,
   Value |-> fields[field.name]]

\* parseProperties: the PropInfo of every field of a record
PropInfoOf(field, fields) ==
  [Name |-> field.name,
   Skip |-> Excluded(field, fields),
   Writable |-> Descriptor(field).Writable,
   Value |-> fields[field.name]]

ParseProperties(rec) ==
  [i \in DOMAIN FieldsOf(rec.type) |-> PropInfoOf(FieldsOf(rec.type)[i], rec.fields)]

\* MakeVariant that gives every value the signature of a string
MakeVariantOfString(e) == [key |-> e.key, sig |-> "string", value |-> e.val]

\* dbus.MakeVariant: the value with the signature of its kind
MakeVariant(e) == [key |-> e.key, sig |-> e.kind, value |-> e.val]

MakeVariants(m) == [i \in DOMAIN m |-> MakeVariant(m[i])]

NoError == [kind |-> "nil", field |-> "", actual |-> ""]

\* TypeMismatch that does not carry the field
TypeMismatchUnnamed(field, actual) ==
  [kind |-> "TypeMismatch", field |-> "", actual |-> actual]

TypeMismatch(field, actual) ==
  [kind |-> "TypeMismatch", field |-> field, actual |-> actual]

\* a variant can be stored in a field of the kind: the kinds agree, or both
\* are fixed-width integers
Convertible(v, kind) ==
  \/ v.sig = kind
  \/ v.sig \in DOMAIN IntWidth /\ kind \in DOMAIN IntWidth

\* the value a convertible variant gets in a field of the kind
Convert(v, kind) ==
  IF v.sig # kind THEN v.value % IntWidth[kind] ELSE v.value

\* util.MapToStruct from the i-th entry on: an entry whose key is a field is
\* converted and stored, any other entry is passed over, and the first entry
\* that cannot be converted ends the call with the record as it stands
RECURSIVE MapToStruct(_, _, _)
MapToStruct(s, props, i) ==
  IF i > Len(props)
  THEN [rec |-> s, err |-> NoError]
  ELSE IF props[i].key \notin FieldNames(s.type)
  THEN MapToStruct(s, props, i + 1)
  ELSE IF ~Convertible(props[i], KindOf(s.type, props[i].key))
  THEN [rec |-> s, err |-> TypeMismatch(props[i].key, props[i].sig)]
  ELSE MapToStruct([s EXCEPT !.fields[props[i].key] =
                               Convert(props[i], KindOf(s.type, props[i].key))],
                   props, i + 1)

\* FromDBusMap allocates on the receiver itself
NewIsReceiver(a) == a

\* s := new(MediaTransport1Properties)
New(a) == ZeroRecord(a.type)

\* FromDBusMap: s := new(...); err := util.MapToStruct(s, props); return s, err
FromDBusMapOf(a, props) == MapToStruct(New(a), props, 1)

\* FromMap: every value wrapped by dbus.MakeVariant, then FromDBusMap
FromMapOf(a, props) == FromDBusMapOf(a, MakeVariants(props))

\* mappings a caller hands to FromMap, besides the one ToMap built
CraftedMaps ==
  << <<Entry("Delay", "string", "not-a-number")>>,
     <<Entry("Nope", "string", "x"), Entry("UUID", "string", "foo")>>,
     <<Entry("Codec", "uint16", 300)>>,
     <<Entry("UUID", "string", "foo"), Entry("Delay", "string", "not-a-number"),
       Entry("Codec", "byte", 1)>>,
     <<Entry("Delay", "uint16", 300), Entry("Count", "string", "not-a-number")>>,
     <<>> >>

\* a record of either type, and no call made on it yet
InitMarshalVars ==
  /\ recv \in RecordsOf("testStruct") \cup RecordsOf("MediaTransport1Properties")
  /\ given = <<>>
  /\ fresh = ZeroRecord(recv.type)
  /\ merr = NoError
  /\ propsConfig = <<>>
  /\ mop = "new"

\* a.ToMap()
ToMap ==
  /\ given' = ToMapOf(recv)
  /\ merr' = NoError
  /\ mop' = "ToMap"
  /\ UNCHANGED <<recv, fresh, propsConfig>>

FromMapReturns(m, out) ==
  /\ given' = m
  /\ fresh' = out.rec
  /\ merr' = out.err
  /\ UNCHANGED <<recv, propsConfig>>

\* a.FromMap(props), with the mapping ToMap built or a crafted one
FromMap ==
  /\ recv.type = "MediaTransport1Properties"
  /\ \/ mop = "ToMap" /\ FromMapReturns(given, FromMapOf(recv, given))
     \/ \E k \in DOMAIN CraftedMaps :
          FromMapReturns(CraftedMaps[k], FromMapOf(recv, CraftedMaps[k]))
  /\ mop' = "FromMap"

\* a.FromDBusMap(props), the same mappings as variants
FromDBusMap ==
  /\ recv.type = "MediaTransport1Properties"
  /\ \/ mop = "ToMap" /\ FromMapReturns(given, FromDBusMapOf(recv, MakeVariants(given)))
     \/ \E k \in DOMAIN CraftedMaps :
          FromMapReturns(CraftedMaps[k],
                         FromDBusMapOf(recv, MakeVariants(CraftedMaps[k])))
  /\ mop' = "FromDBusMap"

\* prop.AddProperties("test", s) and prop.parseProperties()
parseProperties ==
  /\ propsConfig' = ParseProperties(recv)
  /\ merr' = NoError
  /\ mop' = "parseProperties"
  /\ UNCHANGED <<recv, given, fresh>>

\* the caller goes on with another record
NextRecord ==
  /\ mop # "new"
  /\ recv' \in RecordsOf("testStruct") \cup RecordsOf("MediaTransport1Properties")
  /\ given' = <<>>
  /\ fresh' = ZeroRecord(recv'.type)
  /\ merr' = NoError
  /\ propsConfig' = <<>>
  /\ mop' = "new"

\* ------------------------------------------------------------------------
\* The generator: Generate, and the client it renders from an interface model
\* ------------------------------------------------------------------------
MaxRuns == 2

PropertyModel(name, flags) == [Name |-> name, Flags |-> flags]

\* MediaTransport1 as its document describes it
MediaTransport1Api ==
  [Name |-> "MediaTransport1",
   Properties |-> << PropertyModel("Device", <<FlagReadOnly>>),
                     PropertyModel("UUID", <<FlagReadOnly>>),
                     PropertyModel("Codec", <<FlagReadOnly>>),
                     PropertyModel("Configuration", <<FlagReadOnly>>),
                     PropertyModel("State", <<FlagReadOnly>>),
                     PropertyModel("Delay", <<FlagReadWrite>>),
                     PropertyModel("Volume", <<FlagReadWrite>>) >>]

\* the flag lists Parse gives a property
FlagLists ==
  { <<>>, <<FlagReadOnly>>, <<FlagReadWrite>>, <<FlagExperimental>>,
    <<FlagReadOnly, FlagExperimental>>, <<FlagReadWrite, FlagExperimental>> }

\* the batches of interface models given to Generate: MediaTransport1 and
\* an interface with two properties of any flags
Apis ==
  {<<MediaTransport1Api,
     [Name |-> "Other1",
      Properties |-> <<PropertyModel("First", f1), PropertyModel("Second", f2)>>]>> :
     f1 \in FlagLists, f2 \in FlagLists}

\* a declaration of the rendered client
Decl(kind, of) == [kind |-> kind, of |-> of]

\* the accessors of gen_MediaTransport1.go, in the order of the file
GeneratedAccessors ==
  << Decl("getter", "Device"), Decl("getter", "UUID"), Decl("getter", "Codec"),
     Decl("getter", "Configuration"), Decl("getter", "State"),
     Decl("setter", "Delay"), Decl("getter", "Delay"),
     Decl("setter", "Volume"), Decl("getter", "Volume") >>

HasFlag(prop, flag) == \E i \in DOMAIN prop.Flags : prop.Flags[i] = flag

\* AccessorsOf with a getter for every property
AccessorsOfGetAlways(prop) ==
  (IF HasFlag(prop, FlagReadWrite) THEN <<Decl("setter", prop.Name)>> ELSE <<>>)
  \o <<Decl("getter", prop.Name)>>

\* the template's accessors of one property: the setter of a ReadWrite
\* property, then the getter of a ReadOnly or ReadWrite one
AccessorsOf(prop) ==
  (IF HasFlag(prop, FlagReadWrite) THEN <<Decl("setter", prop.Name)>> ELSE <<>>)
  \o (IF HasFlag(prop, FlagReadOnly) \/ HasFlag(prop, FlagReadWrite)
      THEN <<Decl("getter", prop.Name)>> ELSE <<>>)

RECURSIVE AccessorsFrom(_, _)
AccessorsFrom(props, i) ==
  IF i > Len(props) THEN <<>>
  ELSE AccessorsOf(props[i]) \o AccessorsFrom(props, i + 1)

\* the client rendered from an interface model
Render(m) ==
  <<Decl("constructor", m.Name)>> \o AccessorsFrom(m.Properties, 1)

\* WriteFile that adds to what the file holds
WriteFileAppend(tree, path, content) ==
  [tree EXCEPT ![path] = @ \o content]

\* the file at the path is created or replaced
WriteFile(tree, path, content) ==
  [tree EXCEPT ![path] = content]

\* an empty destination root
NoFiles == [n \in {"MediaTransport1", "Other1"} |-> <<>>]

InitGenerateVars ==
  /\ api \in Apis
  /\ files = NoFiles
  /\ gi = 1
  /\ runs = 0
  /\ firstTree = NoFiles
  /\ generr = NIL

\* Generate renders the next interface and writes its file
GenerateFile ==
  /\ runs < MaxRuns
  /\ gi <= Len(api)
  /\ files' = WriteFile(files, api[gi].Name, Render(api[gi]))
  /\ gi' = gi + 1
  /\ UNCHANGED <<api, runs, firstTree, generr>>

\* Generate fails on the next interface: the batch ends, the files written
\* stay
GenerateFails ==
  /\ runs < MaxRuns
  /\ gi <= Len(api)
  /\ gi' = 1
  /\ generr' = "render failed"
  /\ UNCHANGED <<api, files, runs, firstTree>>

\* Generate returns with every file written
GenerateReturns ==
  /\ runs < MaxRuns
  /\ gi > Len(api)
  /\ gi' = 1
  /\ runs' = runs + 1
  /\ firstTree' = IF runs = 0 THEN files ELSE firstTree
  /\ generr' = NIL
  /\ UNCHANGED <<api, files>>

\* ------------------------------------------------------------------------
\* The constructors, and GetPropertiesSignal called from several goroutines
\* ------------------------------------------------------------------------
\* the constructors of the generated clients
Constructors ==
  { "NewGattManager1", "NewGattManager1FromAdapterID", "NewMediaEndpoint1",
    "NewMediaTransport1", "NewProfileManager1" }

\* a constructor that returns the client along with the error of the fetch
ConstructedKeepsClient(ctor, err) ==
  IF ctor # "NewProfileManager1"
  THEN [ctor |-> ctor, client |-> TRUE, err |-> err, fetch |-> TRUE]
  ELSE [ctor |-> ctor, client |-> TRUE, err |-> NIL, fetch |-> FALSE]

\* what a constructor returns when its GetProperties call ends with err;
\* NewProfileManager1 makes no such call
Constructed(ctor, err) ==
  IF ctor # "NewProfileManager1"
  THEN [ctor |-> ctor, client |-> err = NIL, err |-> err, fetch |-> TRUE]
  ELSE [ctor |-> ctor, client |-> TRUE, err |-> NIL, fetch |-> FALSE]

\* no constructor has run, and no goroutine is in GetPropertiesSignal
InitSignalVars ==
  /\ made = [ctor |-> "none", client |-> FALSE, err |-> NIL, fetch |-> FALSE]
  /\ spc = [p \in Procs |-> "idle"]
  /\ sloc = [p \in Procs |-> NoChan]
  /\ since = {}
  /\ returned = {}

\* a constructor is called until one returns a client
Construct ==
  /\ ~made.client
  /\ \E ctor \in Constructors, err \in {NIL, "fetch failed"} :
       made' = Constructed(ctor, err)
  /\ UNCHANGED <<propertiesSignal, objectManagerSignal, objectManager,
                 cancelReturned, connected, registered, chans, op,
                 spc, sloc, since, returned>>

\* GetPropertiesSignal, the test of the field
GetPropertiesSignalTest(p) ==
  /\ made.client /\ made.fetch
  /\ spc[p] = "idle"
  /\ spc' = [spc EXCEPT ![p] = IF propertiesSignal = NoChan THEN "register" ELSE "return"]
  /\ UNCHANGED <<propertiesSignal, objectManagerSignal, objectManager,
                 cancelReturned, connected, registered, chans, op,
                 made, sloc, since, returned>>

\* GetPropertiesSignal, the client.Register call and the test of its error
GetPropertiesSignalRegister(p) ==
  /\ spc[p] = "register"
  /\ \/ /\ Len(chans) < MaxChans
        /\ sloc' = [sloc EXCEPT ![p] = RegisterChan]
        /\ chans' = Append(chans, <<>>)
        /\ registered' = registered \cup {RegisterChan}
        /\ since' = since \cup {RegisterChan}
        /\ spc' = [spc EXCEPT ![p] = "assign"]
        /\ UNCHANGED op
     \/ /\ spc' = [spc EXCEPT ![p] = "idle"]
        /\ op' = Did("GetPropertiesSignal", "register failed", FALSE, FALSE)
        /\ UNCHANGED <<sloc, chans, registered, since>>
  /\ UNCHANGED <<propertiesSignal, objectManagerSignal, objectManager,
                 cancelReturned, connected, made, returned>>

\* GetPropertiesSignal, the assignment to the field
GetPropertiesSignalAssign(p) ==
  /\ spc[p] = "assign"
  /\ propertiesSignal' = sloc[p]
  /\ sloc' = [sloc EXCEPT ![p] = NoChan]
  /\ spc' = [spc EXCEPT ![p] = "return"]
  /\ UNCHANGED <<objectManagerSignal, objectManager, cancelReturned,
                 connected, registered, chans, op, made, since, returned>>

\* GetPropertiesSignal, the return of the field as it is then
GetPropertiesSignalReturn(p) ==
  /\ spc[p] = "return"
  /\ returned' = returned \cup {propertiesSignal}
  /\ spc' = [spc EXCEPT ![p] = "idle"]
  /\ op' = Did("GetPropertiesSignal", NIL, FALSE, FALSE)
  /\ UNCHANGED <<propertiesSignal, objectManagerSignal, objectManager,
                 cancelReturned, connected, registered, chans,
                 made, sloc, since>>

\* unregisterPropertiesSignal, from which the calls are counted anew
unregisterPropertiesSignalCall ==
  /\ made.client /\ made.fetch
  /\ unregisterPropertiesSignal
  /\ since' = {}
  /\ returned' = {}
  /\ UNCHANGED <<made, spc, sloc>>

\* ------------------------------------------------------------------------
\* The sensor: MpuSensor, its config characteristic and its listener
\* ------------------------------------------------------------------------
MaxMpuCalls == 3
MaxChanges == 3

\* binary.ReadUvarint on the bytes of buf from the i-th on: seven bits a
\* byte, least significant group first, a set high bit meaning more follow;
\* the values here are far shorter than the ten bytes of an overflow
RECURSIVE ReadUvarint(_, _, _, _)
ReadUvarint(buf, i, x, weight) ==
  IF i > Len(buf)
  THEN [x |-> x, err |-> IF i > 1 THEN "unexpected EOF" ELSE "EOF"]
  ELSE IF buf[i] < 128
       THEN [x |-> x + buf[i] * weight, err |-> NIL]
       ELSE ReadUvarint(buf, i + 1, x + (buf[i] % 128) * weight, weight * 128)

\* binary.ReadVarint: the zig-zag decoding of the unsigned value
ReadVarintOf(ux, err) ==
  [x |-> IF ux % 2 = 1 THEN -(ux \div 2) - 1 ELSE ux \div 2, err |-> err]

ReadVarint(buf) ==
  ReadVarintOf(ReadUvarint(buf, 1, 0, 1).x, ReadUvarint(buf, 1, 0, 1).err)

\* the values the config characteristic may hold when the sensor is made
CfgValues == { <<>>, <<0>>, <<1>>, <<2>>, <<127, 127>>, <<128>>, <<130, 0>> }

\* the error of a call on a characteristic
Errors == {NIL, "failed"}

\* a sensor call's name and error, what IsEnabled found, and the value
\* the call wrote to the config characteristic (none: <<>>)
Called(name, err, enabled, wrote) ==
  [name |-> name, err |-> err, enabled |-> enabled, wrote |-> wrote]

\* IsEnabled on a characteristic holding c, ReadValue ending with rerr
IsEnabledOf(c, rerr) ==
  IF rerr # NIL THEN [enabled |-> FALSE, err |-> rerr]
  ELSE IF ReadVarint(c).err # NIL THEN [enabled |-> FALSE, err |-> ReadVarint(c).err]
  ELSE [enabled |-> ReadVarint(c).x = 1, err |-> NIL]

\* Enable: what it returns and the value the characteristic holds after it
EnableOf(c, rerr, werr) ==
  IF IsEnabledOf(c, rerr).err # NIL
  THEN [cfg |-> c, err |-> IsEnabledOf(c, rerr).err, enabled |-> FALSE, wrote |-> <<>>]
  ELSE IF IsEnabledOf(c, rerr).enabled
  THEN [cfg |-> c, err |-> NIL, enabled |-> TRUE, wrote |-> <<>>]
  ELSE IF werr # NIL
  THEN [cfg |-> c, err |-> werr, enabled |-> FALSE, wrote |-> <<>>]
  ELSE [cfg |-> <<127, 127>>, err |-> NIL, enabled |-> FALSE, wrote |-> <<127, 127>>]

\* Disable, likewise
DisableOf(c, rerr, werr) ==
  IF IsEnabledOf(c, rerr).err # NIL
  THEN [cfg |-> c, err |-> IsEnabledOf(c, rerr).err, enabled |-> FALSE, wrote |-> <<>>]
  ELSE IF ~IsEnabledOf(c, rerr).enabled
  THEN [cfg |-> c, err |-> NIL, enabled |-> FALSE, wrote |-> <<>>]
  ELSE IF werr # NIL
  THEN [cfg |-> c, err |-> werr, enabled |-> TRUE, wrote |-> <<>>]
  ELSE [cfg |-> <<0>>, err |-> NIL, enabled |-> TRUE, wrote |-> <<0>>]

\* newMpuSensor: the characteristics are found, nothing is watched
InitMpuVars ==
  /\ cfg \in CfgValues
  /\ notifying \in BOOLEAN
  /\ sop = Called("newMpuSensor", NIL, FALSE, <<>>)
  /\ mcalls = 0
  /\ propsChanged = <<>>
  /\ closed = FALSE
  /\ listener = "none"
  /\ forwarded = 0
  /\ values = 0

IsEnabled ==
  /\ mcalls < MaxMpuCalls
  /\ mcalls' = mcalls + 1
  /\ \E rerr \in Errors :
       sop' = Called("IsEnabled", IsEnabledOf(cfg, rerr).err,
                     IsEnabledOf(cfg, rerr).enabled, <<>>)
  /\ UNCHANGED <<cfg, notifying, propsChanged, closed, listener, forwarded, values>>

Enable ==
  /\ mcalls < MaxMpuCalls
  /\ mcalls' = mcalls + 1
  /\ \E rerr \in Errors, werr \in Errors :
       /\ cfg' = EnableOf(cfg, rerr, werr).cfg
       /\ sop' = Called("Enable", EnableOf(cfg, rerr, werr).err,
                        EnableOf(cfg, rerr, werr).enabled,
                        EnableOf(cfg, rerr, werr).wrote)
  /\ UNCHANGED <<notifying, propsChanged, closed, listener, forwarded, values>>

Disable ==
  /\ mcalls < MaxMpuCalls
  /\ mcalls' = mcalls + 1
  /\ \E rerr \in Errors, werr \in Errors :
       /\ cfg' = DisableOf(cfg, rerr, werr).cfg
       /\ sop' = Called("Disable", DisableOf(cfg, rerr, werr).err,
                        DisableOf(cfg, rerr, werr).enabled,
                        DisableOf(cfg, rerr, werr).wrote)
  /\ UNCHANGED <<notifying, propsChanged, closed, listener, forwarded, values>>

\* StartNotify: Enable, WatchProperties, the goroutine, IsNotifying and,
\* when the characteristic does not notify yet, data.StartNotify; each of
\* the calls on the characteristics can fail, and the goroutine started
\* before a later failure stays
StartNotify ==
  /\ mcalls < MaxMpuCalls
  /\ listener = "none"
  /\ mcalls' = mcalls + 1
  /\ \E rerr \in Errors, werr \in Errors, watcherr \in Errors,
        geterr \in Errors, starterr \in Errors :
       /\ cfg' = EnableOf(cfg, rerr, werr).cfg
       /\ IF EnableOf(cfg, rerr, werr).err # NIL
          THEN /\ sop' = Called("StartNotify", EnableOf(cfg, rerr, werr).err,
                                EnableOf(cfg, rerr, werr).enabled, <<>>)
               /\ UNCHANGED <<listener, notifying>>
          ELSE IF watcherr # NIL
          THEN /\ sop' = Called("StartNotify", watcherr,
                                EnableOf(cfg, rerr, werr).enabled,
                                EnableOf(cfg, rerr, werr).wrote)
               /\ UNCHANGED <<listener, notifying>>
          ELSE /\ listener' = "running"
               /\ sop' = Called("StartNotify",
                                IF geterr # NIL THEN geterr
                                ELSE IF ~notifying THEN starterr ELSE NIL,
                                EnableOf(cfg, rerr, werr).enabled,
                                EnableOf(cfg, rerr, werr).wrote)
               /\ notifying' = (notifying \/ (geterr = NIL /\ starterr = NIL))
  /\ UNCHANGED <<propsChanged, closed, forwarded, values>>

\* the characteristic reports a change of one of its properties, or a nil
\* change; a Value of the data characteristic has its eighteen bytes
Change ==
  /\ listener # "none"
  /\ ~closed
  /\ Len(propsChanged) + values < MaxChanges
  /\ \E Name \in {"Value", "Notifying", NIL} :
       /\ propsChanged' = Append(propsChanged, Name)
       /\ values' = IF Name = "Value" /\ listener = "running"
                    THEN values + 1 ELSE values
  /\ UNCHANGED <<cfg, notifying, sop, mcalls, closed, listener, forwarded>>

\* the watch channel is closed
CloseStream ==
  /\ listener # "none"
  /\ ~closed
  /\ closed' = TRUE
  /\ UNCHANGED <<cfg, notifying, sop, mcalls, propsChanged, listener,
                 forwarded, values>>

\* the goroutine of StartNotify, one turn of its loop: it ends when the
\* channel is closed and empty, on a nil change and on a change of a
\* property other than Value; otherwise a data event goes to the tag's
\* Data channel
Listen ==
  /\ listener = "running"
  /\ IF propsChanged = <<>>
     THEN /\ closed
          /\ listener' = "closed"
          /\ UNCHANGED <<propsChanged, forwarded>>
     ELSE /\ propsChanged' = Tail(propsChanged)
          /\ IF Head(propsChanged) = NIL
             THEN listener' = "nil" /\ UNCHANGED forwarded
             ELSE IF Head(propsChanged) # "Value"
             THEN listener' = "other" /\ UNCHANGED forwarded
             ELSE forwarded' = forwarded + 1 /\ UNCHANGED listener
  /\ UNCHANGED <<cfg, notifying, sop, mcalls, closed, values>>

\* ------------------------------------------------------------------------
\* Specifications
\* ------------------------------------------------------------------------
\* the state when component g is put to use: its own part as constructed,
\* the part of every other component as its constructor or its test left it
Init(g) ==
  /\ IF g = "parser" THEN InitParserVars
     ELSE /\ block = CHOOSE b \in LaterBlocks : TRUE
          /\ model = NewProperty
          /\ perr = ErrNil
          /\ ppc = "call"
          /\ calls = 0
  /\ InitClientVars
  /\ InitLockVars
  /\ IF g = "marshal" THEN InitMarshalVars
     ELSE /\ recv = ZeroRecord("testStruct")
          /\ given = <<>>
          /\ fresh = ZeroRecord("testStruct")
          /\ merr = NoError
          /\ propsConfig = <<>>
          /\ mop = "new"
  /\ IF g = "generate" THEN InitGenerateVars
     ELSE /\ api = <<MediaTransport1Api>>
          /\ files = NoFiles
          /\ gi = 1
          /\ runs = 0
          /\ firstTree = NoFiles
          /\ generr = NIL
  /\ InitSignalVars
  /\ IF g = "mpu" THEN InitMpuVars
     ELSE /\ cfg = <<0>>
          /\ notifying = FALSE
          /\ sop = Called("newMpuSensor", NIL, FALSE, <<>>)
          /\ mcalls = 0
          /\ propsChanged = <<>>
          /\ closed = FALSE
          /\ listener = "none"
          /\ forwarded = 0
          /\ values = 0

\* a step of one component leaves the state of the others alone
Frame(g) ==
  /\ IF g = "parser" THEN TRUE
     ELSE UNCHANGED <<block, model, perr, ppc, calls>>
  /\ IF g \in {"client", "signal"} THEN TRUE
     ELSE UNCHANGED <<propertiesSignal, objectManagerSignal, objectManager,
                      cancelReturned, connected, registered, chans, op>>
  /\ IF g = "lock" THEN TRUE
     ELSE UNCHANGED <<lock, Properties, lpc, fetched, view, ret>>
  /\ IF g = "marshal" THEN TRUE
     ELSE UNCHANGED <<recv, given, fresh, merr, propsConfig, mop>>
  /\ IF g = "generate" THEN TRUE
     ELSE UNCHANGED <<api, files, gi, runs, firstTree, generr>>
  /\ IF g = "signal" THEN TRUE
     ELSE UNCHANGED <<made, spc, sloc, since, returned>>
  /\ IF g = "mpu" THEN TRUE
     ELSE UNCHANGED <<cfg, notifying, sop, mcalls, propsChanged, closed,
                      listener, forwarded, values>>

NextParser ==
  \/ Parse /\ Frame("parser")
  \/ NextBlock /\ Frame("parser")

SpecParser == Init("parser") /\ [][NextParser]_vars

NextClient ==
  \/ GetPropertiesSignal /\ Frame("client")
  \/ unregisterPropertiesSignal /\ Frame("client")
  \/ Close /\ Frame("client")
  \/ GetObjectManagerSignal /\ Frame("client")
  \/ cancel /\ Frame("client")
  \/ Deliver /\ Frame("client")
  \/ Receive /\ Frame("client")

SpecClient == Init("client") /\ [][NextClient]_vars

NextLock ==
  \/ \E p \in Procs : GetPropertiesLock(p) /\ Frame("lock")
  \/ \E p \in Procs : GetPropertiesFetch(p) /\ Frame("lock")
  \/ \E p \in Procs : GetPropertiesPopulate(p) /\ Frame("lock")
  \/ \E p \in Procs : GetPropertiesUnlock(p) /\ Frame("lock")
  \/ \E p \in Procs : GetPropertiesReturn(p) /\ Frame("lock")
  \/ \E p \in Procs : ToMapBegin(p) /\ Frame("lock")
  \/ \E p \in Procs : ToMapReturn(p) /\ Frame("lock")

SpecLock == Init("lock") /\ [][NextLock]_vars

NextMarshal ==
  \/ ToMap /\ Frame("marshal")
  \/ FromMap /\ Frame("marshal")
  \/ FromDBusMap /\ Frame("marshal")
  \/ parseProperties /\ Frame("marshal")
  \/ NextRecord /\ Frame("marshal")

SpecMarshal == Init("marshal") /\ [][NextMarshal]_vars

NextGenerate ==
  \/ GenerateFile /\ Frame("generate")
  \/ GenerateFails /\ Frame("generate")
  \/ GenerateReturns /\ Frame("generate")

SpecGenerate == Init("generate") /\ [][NextGenerate]_vars

NextSignal ==
  \/ Construct /\ Frame("signal")
  \/ \E p \in Procs : GetPropertiesSignalTest(p) /\ Frame("signal")
  \/ \E p \in Procs : GetPropertiesSignalRegister(p) /\ Frame("signal")
  \/ \E p \in Procs : GetPropertiesSignalAssign(p) /\ Frame("signal")
  \/ \E p \in Procs : GetPropertiesSignalReturn(p) /\ Frame("signal")
  \/ unregisterPropertiesSignalCall /\ Frame("signal")

SpecSignal == Init("signal") /\ [][NextSignal]_vars

NextMpu ==
  \/ IsEnabled /\ Frame("mpu")
  \/ Enable /\ Frame("mpu")
  \/ Disable /\ Frame("mpu")
  \/ StartNotify /\ Frame("mpu")
  \/ Change /\ Frame("mpu")
  \/ CloseStream /\ Frame("mpu")
  \/ Listen /\ Frame("mpu")

SpecMpu == Init("mpu") /\ [][NextMpu]_vars

\* ------------------------------------------------------------------------
\* Properties of PropertyParser.Parse
\* ------------------------------------------------------------------------
Range(f) == {f[i] : i \in DOMAIN f}

Whitespace == {SP, TAB, NL}

\* Parse has returned
Returned == ppc = "done"

\* Parse has returned a property and no error
Accepted == ppc = "done" /\ perr = ErrNil

\* '<type-keyword> <CapitalizedName>', a newline and a non-empty docs
\* paragraph, with no flag list
Flagless(b) ==
  /\ b.type \in TypeKeywords
  /\ b.name \in CapitalizedNames
  /\ b.flags = <<>>
  /\ b.docs # <<>>

\* the property of a flagless block: its type and name, and no flag
FlaglessResult ==
  /\ perr = ErrNil
  /\ model.Type = block.type
  /\ model.Name = block.name
  /\ model.Flags = <<>>

\* C1: Parse succeeds on every block of the form
\* '<type-keyword> <CapitalizedName>', newline, non-empty docs without a
\* flag list, and returns a property with that Type and Name, no flag and
\* no error.
C1_FlaglessBlockParses ==
  (Returned /\ Flagless(block)) => FlaglessResult

\* C2: the Flags of an accepted block hold at most one of ReadOnly and
\* ReadWrite.
C2_AtMostOneAccessFlag ==
  Accepted => ~(FlagReadOnly \in Range(model.Flags)
                /\ FlagReadWrite \in Range(model.Flags))

\* C3: the Name of an accepted block holds no whitespace character.
C3_NameHasNoWhitespace ==
  Accepted => Range(model.Name) \cap Whitespace = {}

\* C4: '(optional)' does not occur in the Name of an accepted block.
C4_NameHasNoOptionalNote ==
  Accepted => ~Contains(model.Name, OptionalNote)

\* C5: the Docs of an accepted block neither start nor end with whitespace.
C5_DocsAreTrimmed ==
  Accepted => \/ model.Docs = <<>>
              \/ /\ model.Docs[1] \notin Whitespace
                 /\ model.Docs[Len(model.Docs)] \notin Whitespace

\* the flags a bracketed list names: its comma-separated entries, blanks and
\* brackets around an entry aside, that are known tokens
NamedFlags(list) ==
  LET open == MinOf({i \in 1..Len(list) : list[i] = "["})
      close == MinOf({i \in 1..Len(list) : list[i] = "]"})
      entries == Split(SubSeq(list, open + 1, close - 1), ",")
  IN {FlagOf(Trim(entries[i], {SP, "[", "]"})) : i \in DOMAIN entries} \ {FlagNone}

\* C6: the Flags of a block with a bracketed flag list are exactly the flags
\* its comma-separated entries name, and unknown entries do not make Parse
\* fail.
C6_FlagsAreTheNamedOnes ==
  (/\ Returned
   /\ block.type \in TypeKeywords
   /\ block.name[1] \in Upper
   /\ block.docs # <<>>
   /\ block.flags # <<>>) =>
    /\ perr = ErrNil
    /\ Range(model.Flags) = NamedFlags(block.flags)

ReadOnlyList == <<SP,"[","r","e","a","d","o","n","l","y","]">>
ReadWriteList == <<SP,"[","r","e","a","d","w","r","i","t","e","]">>

\* C7: the flag list '[readwrite]' gives Flags = {ReadWrite} and the flag
\* list '[readonly]' gives Flags = {ReadOnly}.
C7_OneTokenOneFlag ==
  Accepted =>
    /\ block.flags = ReadWriteList => Range(model.Flags) = {FlagReadWrite}
    /\ block.flags = ReadOnlyList => Range(model.Flags) = {FlagReadOnly}

OptionalMarker == OptionalNote \o <<SP>>

\* C8: when the name on the signature line contains 'optional', the
\* '(optional)' annotation is gone from Name and Docs starts with
\* '(optional) ', once; otherwise Docs gets no such prefix.
C8_OptionalMovesToDocs ==
  Accepted =>
    IF Contains(block.name, Optional)
    THEN /\ ~Contains(model.Name, OptionalNote)
         /\ HasPrefixAt(model.Docs, 1, OptionalMarker)
         /\ ~HasPrefixAt(model.Docs, 1 + Len(OptionalMarker), OptionalMarker)
    ELSE ~HasPrefixAt(model.Docs, 1, OptionalMarker)

\* neither pattern matches the text
NoPatternMatches(raw) ==
  ~FindSubmatch(raw, TRUE).found /\ ~FindSubmatch(raw, FALSE).found

\* C9: Parse returns 'No property found' exactly when neither the strict
\* nor the loose pattern matches, and no error otherwise.
C9_ErrorIffNoMatch ==
  Returned =>
    IF NoPatternMatches(Text(block)) THEN perr = ErrNoProperty ELSE perr = ErrNil

C9_Witness ==
  /\ Returned
  /\ perr = ErrNoProperty
  /\ block.type \in TypeKeywords
  /\ block.name = <<"X">>

\* ------------------------------------------------------------------------
\* Properties of the subscription helpers
\* ------------------------------------------------------------------------
\* the last operation sent no sentinel, called no Unregister, raised no
\* error, and the step left the subscriptions as they were
NoUnsubscribeEffect ==
  /\ ~op'.sentinel /\ ~op'.unregister /\ op'.err = NIL
  /\ UNCHANGED <<propertiesSignal, objectManagerSignal, objectManager,
                 registered, chans>>

\* C10: unsubscription is idempotent. unregisterPropertiesSignal (alone or
\* through Close) and the cancel function leave no subscription behind, and
\* run on a client without that subscription they send no sentinel, call no
\* Unregister, change nothing and raise no error.
C10_UnsubscribeTwiceIsNoOp ==
  [][/\ op'.name \in {"unregisterPropertiesSignal", "Close"} =>
          /\ propertiesSignal' = NoChan
          /\ propertiesSignal = NoChan => NoUnsubscribeEffect
     /\ op'.name = "cancel" =>
          /\ objectManagerSignal' = NoChan
          /\ objectManagerSignal = NoChan => NoUnsubscribeEffect]_vars

\* both subscriptions were made and cancelled, and the last cancel found
\* nothing to do
C10_Witness ==
  /\ op.name = "cancel" /\ ~op.sentinel
  /\ cancelReturned
  /\ Len(chans) = 2
  /\ propertiesSignal = NoChan
  /\ objectManagerSignal = NoChan

\* a channel the client handed out and no longer holds: its unsubscription
\* has returned
Unsubscribed(c) ==
  /\ c \in DOMAIN chans
  /\ c # propertiesSignal
  /\ c # objectManagerSignal

\* C11: once an unsubscription has returned (unregisterPropertiesSignal, or
\* the cancel function of the object-manager signal), the transport delivers
\* no further event on the channel the subscriber obtained, whatever the
\* transport's event producer does next.
C11_NoEventAfterUnsubscribe ==
  [][op'.name = "deliver" =>
       \A c \in DOMAIN chans : Unsubscribed(c) => chans'[c] = chans[c]]_vars

\* ------------------------------------------------------------------------
\* Properties of the Properties record and its lock
\* ------------------------------------------------------------------------
\* the caller is between ToMap's first and last read of the fields
Reading(p) == lpc[p] = "tm_reading"

\* the caller's fetch is between its first and last write to the record
Populating(p) == lpc[p] = "gp_populating"

\* C12: ToMap reads the record's fields only under a shared acquisition of
\* the record's lock, so no ToMap reads fields while a GetProperties on the
\* same record is populating it under the exclusive lock.
C12_ToMapReadsUnderSharedLock ==
  \A p \in Procs :
    Reading(p) =>
      /\ p \in lock.readers
      /\ \A q \in Procs : ~Populating(q)

\* the caller holds the exclusive lock
Holds(p) == lock.writer = p

\* C13: GetProperties holds the record's exclusive lock from before the
\* fetch until the fetch is over and has released it when it returns,
\* whether the fetch succeeded or failed: no two GetProperties calls populate
\* the record at the same time, and no caller that is not inside
\* GetProperties holds the lock.
C13_GetPropertiesLocksAndReleases ==
  /\ \A p \in Procs :
       /\ lpc[p] \in {"gp_locked", "gp_populating", "gp_fetched"} => Holds(p)
       /\ lpc[p] \in {"gp_unlocked", "idle", "tm_reading"} => ~Holds(p)
  /\ \A p, q \in Procs : (Populating(p) /\ Populating(q)) => p = q

\* one caller's GetProperties has returned the fetch's error while another
\* caller's GetProperties is populating the record under the lock
C13_Witness ==
  \E p, q \in Procs :
    /\ lpc[p] = "idle"
    /\ ret[p].name = "GetProperties"
    /\ ret[p].err = "fetch failed"
    /\ Populating(q)
    /\ Holds(q)

\* ------------------------------------------------------------------------
\* Properties of the marshaller
\* ------------------------------------------------------------------------
Tagged(field, name) ==
  \E i \in DOMAIN field.tag : field.tag[i].name = name /\ field.tag[i].arg = ""

\* the field is tagged 'ignore=<Flag>' and the sibling field <Flag> is true
SkippedBySibling(field, fields) ==
  \E i \in DOMAIN field.tag :
    /\ field.tag[i].name = "ignore"
    /\ field.tag[i].arg # ""
    /\ fields[field.tag[i].arg]

Empty(field, fields) == fields[field.name] = Zero(field.kind)

\* the mapping has the field's name as a key, with the field's value
Emits(m, field, fields) ==
  \E k \in DOMAIN m : m[k].key = field.name /\ m[k].val = fields[field.name]

\* the record of the test: IgnoreFlag set, ToOmit left empty
TestRecord ==
  [type |-> "testStruct",
   fields |-> [IgnoreFlag |-> TRUE, ToOmit |-> <<>>, Ignored |-> "foo",
               IgnoredByProperty |-> <<"bar">>, Avail |-> "foo"]]

\* C14: ToMap emits a field, keyed by its name with its current value,
\* exactly when the field is not tagged 'ignore', is not tagged to be skipped
\* by a sibling boolean field that is true, and is not tagged 'omitEmpty'
\* while empty; it emits no other key, and the record with an empty ToOmit, a
\* skip-tagged Ignored and Avail = "foo" gives exactly {"Avail": "foo"}.
C14_ToMapEmitsUnskippedFields ==
  mop = "ToMap" =>
    /\ \A i \in DOMAIN FieldsOf(recv.type) :
         Emits(given, FieldsOf(recv.type)[i], recv.fields) <=>
           /\ ~Tagged(FieldsOf(recv.type)[i], "ignore")
           /\ ~SkippedBySibling(FieldsOf(recv.type)[i], recv.fields)
           /\ ~(/\ Tagged(FieldsOf(recv.type)[i], "omitEmpty")
                /\ Empty(FieldsOf(recv.type)[i], recv.fields))
    /\ \A k \in DOMAIN given : given[k].key \in FieldNames(recv.type)
    /\ recv = TestRecord => given = <<Entry("Avail", "string", "foo")>>

\* ToMap ran on the record of the test and left out ToOmit, Ignored and the
\* field its true sibling IgnoreFlag skips
C14_Witness ==
  /\ mop = "ToMap"
  /\ recv = TestRecord
  /\ Len(given) = 1
  /\ given[1].key = "Avail"

\* C15: after AddProperties and parseProperties, the configuration of a field
\* has Skip set when the field is tagged 'ignore', when it is tagged
\* 'ignore=<Flag>' and the sibling <Flag> is true, and when it is tagged
\* 'omitEmpty' and is empty; it has Writable set when the field is tagged
\* 'writable', whatever Skip is; and its Value is the field's value when the
\* field has no tag.
C15_ConfigFollowsTags ==
  mop = "parseProperties" =>
    /\ Len(propsConfig) = Len(FieldsOf(recv.type))
    /\ \A i \in DOMAIN FieldsOf(recv.type) :
         /\ propsConfig[i].Name = FieldsOf(recv.type)[i].name
         /\ Tagged(FieldsOf(recv.type)[i], "ignore") => propsConfig[i].Skip
         /\ SkippedBySibling(FieldsOf(recv.type)[i], recv.fields) => propsConfig[i].Skip
         /\ (/\ Tagged(FieldsOf(recv.type)[i], "omitEmpty")
             /\ Empty(FieldsOf(recv.type)[i], recv.fields)) => propsConfig[i].Skip
         /\ Tagged(FieldsOf(recv.type)[i], "writable") => propsConfig[i].Writable
         /\ FieldsOf(recv.type)[i].tag = <<>> =>
              propsConfig[i].Value = recv.fields[FieldsOf(recv.type)[i].name]

\* the configuration of the test's record: ToOmit is skipped and writable,
\* IgnoredByProperty is skipped through IgnoreFlag, Avail holds "foo"
C15_Witness ==
  /\ mop = "parseProperties"
  /\ recv = TestRecord
  /\ propsConfig[2].Name = "ToOmit" /\ propsConfig[2].Skip /\ propsConfig[2].Writable
  /\ propsConfig[4].Name = "IgnoredByProperty" /\ propsConfig[4].Skip
  /\ propsConfig[5].Name = "Avail" /\ propsConfig[5].Value = "foo"

\* every property of the record, that is, every field but the record's own
\* lock, is emitted by ToMap and holds a value other than its zero value
AllPropertiesSet(rec) ==
  \A i \in DOMAIN FieldsOf(rec.type) :
    FieldsOf(rec.type)[i].name # "lock" =>
      /\ FieldsOf(rec.type)[i].tag = <<>>
      /\ ~Empty(FieldsOf(rec.type)[i], rec.fields)

\* the last call was FromMap on the mapping ToMap built from the receiver
RoundTrip ==
  /\ mop = "FromMap"
  /\ given = ToMapOf(recv)

Offending(e, type) ==
  /\ e.key \in FieldNames(type)
  /\ e.kind # KindOf(type, e.key)
  /\ ~(e.kind \in {"byte", "uint16"} /\ KindOf(type, e.key) \in {"byte", "uint16"})

RECURSIVE Matching(_, _)
Matching(m, type) ==
  IF m = <<>> THEN <<>>
  ELSE (IF Head(m).key \in FieldNames(type) THEN <<Head(m)>> ELSE <<>>)
       \o Matching(Tail(m), type)

\* C18: FromMap and FromDBusMap leave the receiver as it was and return
\* another record, in which every field without an entry holds its zero
\* value; entries whose key is no field change nothing, the call returning
\* what it returns for the mapping without them.
C18_FromMapFillsFreshRecord ==
  [][mop' \in {"FromMap", "FromDBusMap"} =>
       /\ recv' = recv
       /\ \A n \in FieldNames(recv.type) :
            (\A k \in DOMAIN given' : given'[k].key # n) =>
              fresh'.fields[n] = Zero(KindOf(recv.type, n))
       /\ fresh' = FromMapOf(recv, Matching(given', recv.type)).rec
       /\ merr' = FromMapOf(recv, Matching(given', recv.type)).err]_vars

\* FromMap of a mapping with an unknown key and a UUID, on a receiver whose
\* Delay is set: the record returned has the UUID and a zero Delay
C18_Witness ==
  /\ mop = "FromMap"
  /\ Len(given) = 2 /\ given[1].key = "Nope" /\ given[2].key = "UUID"
  /\ recv.fields.Delay = 300 /\ recv.fields.UUID = ""
  /\ fresh.fields.Delay = 0 /\ fresh.fields.UUID = "foo"
  /\ merr = NoError

Exposes(m, kind, name) ==
  \E k \in DOMAIN files[m.Name] : files[m.Name][k] = Decl(kind, name)

\* the accessors in the file written for the interface
RECURSIVE Accessors(_)
Accessors(content) ==
  IF content = <<>> THEN <<>>
  ELSE (IF Head(content).kind \in {"getter", "setter"} THEN <<Head(content)>> ELSE <<>>)
       \o Accessors(Tail(content))

\* C20: in the client generated for an interface, a property has a getter
\* exactly when its flags contain ReadOnly or ReadWrite and a setter exactly
\* when they contain ReadWrite; for MediaTransport1 these are the accessors
\* of gen_MediaTransport1.go, getters for all seven properties and setters
\* for Delay and Volume only.
C20_AccessorsFollowFlags ==
  \A i \in DOMAIN api :
    files[api[i].Name] # <<>> =>
      /\ \A k \in DOMAIN api[i].Properties :
           /\ Exposes(api[i], "getter", api[i].Properties[k].Name) <=>
                \E j \in DOMAIN api[i].Properties[k].Flags :
                  api[i].Properties[k].Flags[j] \in {FlagReadOnly, FlagReadWrite}
           /\ Exposes(api[i], "setter", api[i].Properties[k].Name) <=>
                \E j \in DOMAIN api[i].Properties[k].Flags :
                  api[i].Properties[k].Flags[j] = FlagReadWrite
      /\ api[i].Name = "MediaTransport1" =>
           Accessors(files[api[i].Name]) = GeneratedAccessors

\* both clients are written; Other1 has a property without accessors and
\* a ReadWrite one
C20_Witness ==
  /\ files["MediaTransport1"] # <<>>
  /\ api[2].Properties[1].Flags = <<FlagExperimental>>
  /\ api[2].Properties[2].Flags = <<FlagReadWrite, FlagExperimental>>
  /\ Len(files["Other1"]) = 3

\* ------------------------------------------------------------------------
\* Further properties of PropertyParser.Parse
\* ------------------------------------------------------------------------
\* C21: Parse never reads a submatch the match does not have. A block the
\* loose pattern matches is matched by the strict pattern too, the match
\* Parse reads has the whole match and the four groups type, name, flag list
\* and docs, and Parse ends with a property or with 'No property found'.
C21_NoMissingSubmatchRead ==
  Returned =>
    /\ perr \in {ErrNil, ErrNoProperty}
    /\ FindSubmatch(Text(block), FALSE).found => FindSubmatch(Text(block), TRUE).found
    /\ perr = ErrNil => Len(Matches(Text(block)).groups) = 5

\* Parse returned a property for a block without a flag list, which the
\* loose pattern matches as well, with a match of three groups
C21_Witness ==
  /\ Accepted
  /\ block.flags = <<>>
  /\ FindSubmatch(Text(block), FALSE).found
  /\ Len(FindSubmatch(Text(block), FALSE).groups) = 4

\* C22: a parser has one model object, which every Parse call on it works on
\* and returns. A Parse that succeeds replaces Type, Name, Flags and Docs by
\* what the block alone gives, whatever an earlier call left there; a Parse
\* that fails leaves the four fields as the previous call left them.
C22_ParseReplacesOrKeepsModel ==
  [][(ppc = "call" /\ ppc' = "done") =>
       IF perr' = ErrNil
       THEN model' = ParseOutcome(NewProperty, Text(block)).model
       ELSE model' = model]_vars

\* the second call on a parser failed and the model still holds the flags
\* of the first
C22_Witness ==
  /\ Returned
  /\ calls = 2
  /\ perr = ErrNoProperty
  /\ model.Flags # <<>>
  /\ model.Name # <<>>

\* ------------------------------------------------------------------------
\* Properties of the cancel function
\* ------------------------------------------------------------------------
\* C24: a cancel function acts on the subscription that is current when it
\* is called: with a channel in the objectManagerSignal field, whichever
\* GetObjectManagerSignal call put it there, the call sends the sentinel
\* to that channel, unregisters that channel and clears the field
C24_CancelActsOnCurrentSubscription ==
  [][(cancelReturned /\ op'.name = "cancel" /\ objectManagerSignal # NoChan) =>
       /\ chans'[objectManagerSignal] = Append(chans[objectManagerSignal], Sentinel)
       /\ registered' = registered \ {objectManagerSignal}
       /\ objectManagerSignal' = NoChan
       /\ op'.sentinel /\ op'.unregister]_vars

\* the first subscription was cancelled, a second one was made, and a
\* cancel call then acted on the channel of the second
C24_Witness ==
  /\ op.name = "cancel" /\ op.unregister
  /\ Len(chans) = 2
  /\ propertiesSignal = NoChan
  /\ registered = {}
  /\ objectManagerSignal = NoChan
  /\ chans[2] # <<>> /\ chans[2][Len(chans[2])] = Sentinel
\* ------------------------------------------------------------------------
\* Properties of GetPropertiesSignal under concurrent calls
\* ------------------------------------------------------------------------
\* C23: whatever the interleaving of GetPropertiesSignal calls and
\* unregistrations, at most one registration of the properties signal was
\* made since the last unregistration, and all the GetPropertiesSignal
\* calls since then returned one and the same channel
C23_OneRegistrationOneChannel ==
  /\ Cardinality(since) <= 1
  /\ Cardinality(returned) <= 1
\* ------------------------------------------------------------------------
\* Properties of the constructors
\* ------------------------------------------------------------------------
\* C25: a constructor that makes the initial fetch returns either a client
\* and no error, or no client and the error of the fetch, never both and
\* never neither; NewProfileManager1 makes no fetch and returns a client
\* and no error
C25_ConstructorReturnsClientOrError ==
  made.ctor # "none" =>
    /\ \/ made.client /\ made.err = NIL
       \/ ~made.client /\ made.err # NIL
    /\ made.fetch <=> made.ctor # "NewProfileManager1"
    /\ made.ctor = "NewProfileManager1" => made.client /\ made.err = NIL

\* a constructor whose fetch failed has returned
C25_Witness ==
  /\ made.ctor = "NewGattManager1FromAdapterID"
  /\ made.fetch
  /\ ~made.client
  /\ made.err = "fetch failed"
\* ------------------------------------------------------------------------
\* Properties of MpuSensor
\* ------------------------------------------------------------------------
\* two calls in a row that both returned no error, the second named n
After(first, n) ==
  /\ mcalls' = mcalls + 1
  /\ sop.name = first /\ sop.err = NIL
  /\ sop'.name = n /\ sop'.err = NIL

\* C26: with a config characteristic that reads back the value last
\* written, IsEnabled right after a successful Enable returns true, Enable
\* right after it writes nothing, Disable right after it writes a zero
\* byte, and IsEnabled right after a successful Disable returns false
C26_EnableIsReadBack ==
  [][/\ After("Enable", "IsEnabled") => sop'.enabled
     /\ After("Enable", "Enable") => sop'.wrote = <<>>
     /\ After("Enable", "Disable") => sop'.wrote = <<0>>
     /\ After("Disable", "IsEnabled") => ~sop'.enabled]_vars

\* the 'Value' changes waiting in the watch channel
RECURSIVE ValueChanges(_)
ValueChanges(stream) ==
  IF stream = <<>> THEN 0
  ELSE (IF Head(stream) = "Value" THEN 1 ELSE 0) + ValueChanges(Tail(stream))

\* C27: once StartNotify has started it, the listener leaves its loop only
\* when the watch channel is closed or yields nil, and until then every
\* 'Value' change delivered was forwarded as a data event or is waiting
\* in the channel, whatever other changes were delivered
C27_ListenerForwardsEveryValueChange ==
  /\ listener \in {"none", "running", "closed", "nil"}
  /\ listener = "running" => forwarded + ValueChanges(propsChanged) = values
====
